---- MODULE Spec2Model ----
(***************************************************************************)
(* State machine of the NewsScraperApp component (frontend/src/App.js):    *)
(* the React state of the component, the three asynchronous handlers       *)
(* (handleScrape, fetchTrendingNews, handleSummarize), the synchronous     *)
(* handlers (toggleSummary, the filter setters) and the values derived on  *)
(* every render (allArticles, filteredArticles, the card keys).            *)
(*                                                                         *)
(* A JavaScript object used as a map ({} at start) is a function whose     *)
(* DOMAIN is the set of keys written so far; reading a key outside the     *)
(* domain is JavaScript's undefined.  An absent article field is the       *)
(* value Undefined (strings) or NoScore (relevance_score).                 *)
(*                                                                         *)
(* An async handler is one action up to its await of fetch and one action  *)
(* per way the awaited call can settle; the calls in flight are the sets   *)
(* scrapeCalls, trendingCalls and summarizeCalls.                          *)
(***************************************************************************)
EXTENDS Integers, Sequences, FiniteSets, TLC

VARIABLES
    articles,            \* useState([])    App.js:22
    loading,             \* useState(false) App.js:23
    stats,               \* useState(null)  App.js:24
    error,               \* useState('')    App.js:25
    selectedSource,      \* useState('all') App.js:26
    selectedSentiment,   \* useState('all') App.js:27
    selectedCategory,    \* useState('all') App.js:28
    summarizing,         \* useState({})    App.js:31
    summaries,           \* useState({})    App.js:32
    expandedSummaries,   \* useState({})    App.js:33
    trendingArticles,    \* useState([])    App.js:36
    loadingTrending,     \* useState(false) App.js:37
    scrapeCalls,         \* bodies of the POST /scrape calls in flight, oldest first
    trendingCalls,       \* number of GET /trending calls in flight
    summarizeCalls,      \* the POST /summarize calls in flight, oldest first
    resolved,            \* history: per key, the call that produced summaries[key]
    outcome,             \* history: how handleScrape and fetchTrendingNews went
                         \* last, the form handleScrape read last (asked) and
                         \* the articles lists the two handlers received last
    observed             \* history: the response of the /summarize call that
                         \* settled last and what it found, forgotten when a
                         \* call is issued (kept only when the handlers are
                         \* called directly)

vars == << articles, loading, stats, error, selectedSource, selectedSentiment,
           selectedCategory, summarizing, summaries, expandedSummaries,
           trendingArticles, loadingTrending, scrapeCalls, trendingCalls,
           summarizeCalls, resolved, outcome, observed >>

feedVars == << articles, loading, stats, error, trendingArticles, loadingTrending,
               scrapeCalls, trendingCalls, outcome >>
selectionVars == << selectedSource, selectedSentiment, selectedCategory >>
summaryVars == << summarizing, summaries, expandedSummaries >>

----------------------------------------------------------------------------
(* Bounds of the model *)

\* calls of one endpoint in flight at the same time
MaxInFlight == 2

----------------------------------------------------------------------------
(* JavaScript values *)

Undefined == "<undefined>"
NoScore == -1
\* null, the initial value of stats; a record, as the stats are
Null == [null |-> TRUE]

TruthyStr(v) == v \notin {Undefined, ""}
TruthyNum(n) == n \notin {NoScore, 0}

\* a || b
OrElse(a, b) == IF TruthyStr(a) THEN a ELSE b
OrElseNum(a, b) == IF TruthyNum(a) THEN a ELSE b

\* obj[key] of an object used as a boolean map: undefined is falsy
Get(obj, key) == key \in DOMAIN obj /\ obj[key]

\* { ...prev, [key]: value }
Put(prev, key, value) ==
    [k \in DOMAIN prev \cup {key} |-> IF k = key THEN value ELSE prev[k]]

EmptyObject == [k \in {} |-> TRUE]

----------------------------------------------------------------------------
(* Articles and backend responses *)

Article(url, source, sentiment, category, score) ==
    [url |-> url, source |-> source, sentiment |-> sentiment,
     category |-> category, relevance_score |-> score]

\* records the backend returns in the articles list of /scrape; the second
\* one comes without sentiment, category and relevance_score
ScrapedA1 == Article("https://bbc.com/a1", "BBC", "positive", "Technology", 3)
ScrapedA2 == Article("https://cnn.com/a2", "CNN", Undefined, Undefined, NoScore)

\* records the backend returns in the articles list of /trending; the
\* second one has the URL of a scraped article
TrendingT1 ==
    Article("https://theguardian.com/t1", "The Guardian", Undefined, Undefined, NoScore)
TrendingT2 == Article("https://bbc.com/a1", "BBC", "negative", "Technology", 0)

\* the articles lists of the /scrape and /trending responses
ScrapeLists == { <<>>, << ScrapedA1, ScrapedA2 >>, << ScrapedA2 >> }
TrendingLists == { <<>>, << TrendingT1 >>, << TrendingT2, TrendingT1 >> }

\* body of a successful /scrape response
ScrapeData(list) ==
    [articles |-> list, total |-> Len(list), processing_time |-> 1,
     sources_scraped |-> 1, errors |-> Undefined]

\* the ways a fetch can fail: a non-success status, a rejected fetch
\* (network error), a body that is not JSON
FetchFailures == {"status", "network", "badjson"}

\* response.json() of a successful /summarize call
SummaryPayloads ==
    { [summary |-> "s1", original_length |-> 1000, summary_length |-> 100,
       compression_ratio |-> 10],
      [summary |-> "s2", original_length |-> 2000, summary_length |-> 500,
       compression_ratio |-> 25] }

\* what a /summarize call can settle with: kind "ok" is a success status,
\* "status" a non-success status, "network" a rejected fetch; parses tells
\* whether response.json() resolves, and json is what it resolves to: the
\* payload for a success status, {detail} or {} for a non-success status
BackendDetail == "Could not extract article content"
NoBody == [detail |-> Undefined]
SummarizeResponses ==
    { [kind |-> "ok", parses |-> TRUE, json |-> p] : p \in SummaryPayloads }
    \cup { [kind |-> "ok", parses |-> FALSE, json |-> NoBody] }
    \cup { [kind |-> "status", parses |-> TRUE, json |-> [detail |-> d]] :
              d \in {BackendDetail, "", Undefined} }
    \cup { [kind |-> "status", parses |-> FALSE, json |-> NoBody],
           [kind |-> "network", parses |-> FALSE, json |-> NoBody] }

\* the responses used when the whole component is explored
UiSummarizeResponses ==
    { r \in SummarizeResponses :
         \/ r.kind = "ok" /\ r.parses /\ r.json.summary = "s1"
         \/ r.kind = "network" }

\* messages
ValidationMessage == "Please add at least one URL and one filter"
ScrapeFailedMessage ==
    "Failed to scrape articles. Make sure the backend is running at http://localhost:8000"
SummarizationFailed == "Summarization failed"
JsonSyntaxError == "Unexpected token < in JSON at position 0"
FailedToFetch == "Failed to fetch"

----------------------------------------------------------------------------
(* The scrape form: each entry is a string, here a sequence of characters *)

SP == " "

RECURSIVE TrimStart(_)
TrimStart(s) == IF s # <<>> /\ Head(s) = SP THEN TrimStart(Tail(s)) ELSE s

RECURSIVE TrimEnd(_)
TrimEnd(s) ==
    IF s # <<>> /\ s[Len(s)] = SP THEN TrimEnd(SubSeq(s, 1, Len(s) - 1)) ELSE s

\* String.prototype.trim
Trim(s) == TrimEnd(TrimStart(s))

\* url => url.trim(): the empty string is falsy
NonBlank(entry) == Trim(entry) # <<>>

\* faulty variant: urls.filter(url => url), without the trim
ValidEntriesUntrimmed(entries) == SelectSeq(entries, LAMBDA entry : entry # <<>>)

\* urls.filter(url => url.trim())
ValidEntries(entries) == SelectSeq(entries, NonBlank)

\* contents of the lists urls, filters, categories when the scrape button
\* is pressed (the editing handlers can produce any list of one or more
\* entries)
FormInputs ==
    { [urls |-> << <<"x">> >>, filters |-> << <<"x">> >>, categories |-> << <<"x">> >>],
      [urls |-> << <<SP, SP>>, <<SP, "x", SP>> >>, filters |-> << <<"x">>, <<>> >>,
       categories |-> << <<>> >>],
      [urls |-> << <<>> >>, filters |-> << <<"x">> >>, categories |-> << <<"x">> >>],
      [urls |-> << <<"x">> >>, filters |-> << <<SP>> >>, categories |-> << <<"x">> >>] }

----------------------------------------------------------------------------
(* Values computed on every render *)

\* list.map(a => a[field])
Pluck(list, field) == [i \in 1..Len(list) |-> list[i][field]]

\* faulty variant: the distinct values in order of last occurrence
RECURSIVE DistinctLastSeen(_)
DistinctLastSeen(seq) ==
    IF seq = <<>> THEN <<>>
    ELSE IF \E i \in 2..Len(seq) : seq[i] = Head(seq)
    THEN DistinctLastSeen(Tail(seq))
    ELSE << Head(seq) >> \o DistinctLastSeen(Tail(seq))

\* [...new Set(seq)]: the distinct values in order of first occurrence
RECURSIVE Distinct(_)
Distinct(seq) ==
    IF seq = <<>> THEN <<>>
    ELSE LET rest == Distinct(SubSeq(seq, 1, Len(seq) - 1))
             last == seq[Len(seq)]
         IN  IF \E i \in 1..Len(rest) : rest[i] = last THEN rest
             ELSE Append(rest, last)

\* faulty variant: defaults with ?? instead of ||, so that only an absent
\* field is replaced, not an empty or zero one
ProcessArticleNullish(article) ==
    [article EXCEPT !.sentiment = IF @ = Undefined THEN "neutral" ELSE @,
                    !.category = IF @ = Undefined THEN "General" ELSE @,
                    !.relevance_score = IF @ = NoScore THEN 500 ELSE @]

\* the entry of processedArticles for one entry of data.articles
ProcessArticle(article) ==
    [article EXCEPT !.sentiment = OrElse(@, "neutral"),
                    !.category = OrElse(@, "General"),
                    !.relevance_score = OrElseNum(@, 500)]

\* data.articles.map(article => ({...}))
ProcessedArticles(list) == [i \in 1..Len(list) |-> ProcessArticle(list[i])]

\* the articles of list whose url does not occur earlier in list
RECURSIVE FirstByUrl(_)
FirstByUrl(list) ==
    IF list = <<>> THEN <<>>
    ELSE LET rest == FirstByUrl(SubSeq(list, 1, Len(list) - 1))
             last == list[Len(list)]
         IN  IF \E i \in 1..Len(rest) : rest[i].url = last.url THEN rest
             ELSE Append(rest, last)

\* faulty variant: an article whose URL is in both feeds is taken once
allArticlesByUrl == FirstByUrl(articles \o trendingArticles)

\* [...articles, ...trendingArticles]
allArticles == articles \o trendingArticles

\* faulty variant: the categories without the filter(c => c)
uniqueCategoriesUnfiltered == Distinct(Pluck(allArticles, "category"))

uniqueSources == Distinct(Pluck(allArticles, "source"))
uniqueSentiments == Distinct(SelectSeq(Pluck(allArticles, "sentiment"), TruthyStr))
uniqueCategories == Distinct(SelectSeq(Pluck(allArticles, "category"), TruthyStr))

\* list.filter(a => a[field] === value).length
CountWhere(list, field, value) == Len(SelectSeq(list, LAMBDA a : a[field] = value))

\* the data of the 'Articles per Source' chart and the counts on the source
\* filter buttons, one per entry of uniqueSources
sourceCounts ==
    [i \in 1..Len(uniqueSources) |-> CountWhere(allArticles, "source", uniqueSources[i])]

\* the counts on the category filter buttons, one per entry of uniqueCategories
categoryCounts ==
    [i \in 1..Len(uniqueCategories) |->
        CountWhere(allArticles, "category", uniqueCategories[i])]

\* the counts of the sentiment chart
sentimentCounts ==
    [positive |-> CountWhere(allArticles, "sentiment", "positive"),
     negative |-> CountWhere(allArticles, "sentiment", "negative"),
     neutral |-> CountWhere(allArticles, "sentiment", "neutral"),
     general |-> Len(SelectSeq(allArticles,
                               LAMBDA a : ~TruthyStr(a.sentiment) \/ a.sentiment = "General"))]

\* faulty variant: 'all' is compared like any other value
FilterByNoWildcard(list, selected, field) ==
    SelectSeq(list, LAMBDA a : a[field] = selected)

\* if (selected !== 'all') list = list.filter(a => a[field] === selected)
FilterBy(list, selected, field) ==
    IF selected # "all" THEN SelectSeq(list, LAMBDA a : a[field] = selected) ELSE list

\* faulty variant: the category selection is not applied
filteredArticlesTwoFields ==
    FilterBy(FilterBy(articles, selectedSource, "source"),
             selectedSentiment, "sentiment")

filteredArticles ==
    FilterBy(FilterBy(FilterBy(articles, selectedSource, "source"),
                      selectedSentiment, "sentiment"),
             selectedCategory, "category")

\* stateKey of renderArticleCard(article, index, prefix); index counts from 0
StateKey(prefix, index) == << prefix, index >>

\* the cards on screen: the grid renders filteredArticles with prefix 'A',
\* the trending section renders trendingArticles with prefix 'T'
Cards ==
    { [key |-> StateKey("A", i - 1), article |-> filteredArticles[i]] :
          i \in 1..Len(filteredArticles) }
    \cup { [key |-> StateKey("T", i - 1), article |-> trendingArticles[i]] :
          i \in 1..Len(trendingArticles) }

\* what renderSummarySection(stateKey) puts on a card: nothing when the key
\* has no stored result, else the toggle button and, when expanded, the result
renderSummarySection(stateKey) ==
    IF stateKey \in DOMAIN summaries
    THEN << [result |-> summaries[stateKey],
             expanded |-> Get(expandedSummaries, stateKey)] >>
    ELSE <<>>

\* the sentiment filter buttons
SentimentButtons == << "positive", "negative", "neutral", "General" >>

\* the counts on the sentiment filter buttons, one per entry of SentimentButtons
sentimentButtonCounts ==
    [i \in 1..Len(SentimentButtons) |->
        CountWhere(allArticles, "sentiment", SentimentButtons[i])]

\* faulty variant: the 'All' button of the source filter counts the combined view
allButtonCountsCombined ==
    IF Len(allArticles) > 0
    THEN [source |-> << Len(allArticles) >>, sentiment |-> <<>>, category |-> <<>>]
    ELSE [source |-> <<>>, sentiment |-> <<>>, category |-> <<>>]

\* the counts on the 'All' buttons of the three filters, which are rendered
\* when allArticles.length > 0: 'All ({articles.length})' for the source, a
\* plain 'All' for the sentiment and the category
allButtonCounts ==
    IF Len(allArticles) > 0
    THEN [source |-> << Len(articles) >>, sentiment |-> <<>>, category |-> <<>>]
    ELSE [source |-> <<>>, sentiment |-> <<>>, category |-> <<>>]

----------------------------------------------------------------------------
(* State after the component is mounted: the useState initial values and   *)
(* the effect of the mount effect, which calls fetchTrendingNews once.     *)

NoObservation == [response |-> <<>>, collapsed |-> FALSE, crossed |-> FALSE]

Init ==
    /\ articles = <<>>
    /\ loading = FALSE
    /\ stats = Null
    /\ error = ""
    /\ selectedSource = "all"
    /\ selectedSentiment = "all"
    /\ selectedCategory = "all"
    /\ summarizing = EmptyObject
    /\ summaries = EmptyObject
    /\ expandedSummaries = EmptyObject
    /\ trendingArticles = <<>>
    /\ loadingTrending = TRUE
    /\ scrapeCalls = <<>>
    /\ trendingCalls = 1
    /\ summarizeCalls = <<>>
    /\ resolved = EmptyObject
    /\ outcome = [scrape |-> "none", trending |-> "started", asked |-> <<>>,
                  scraped |-> <<>>, trended |-> <<>>]
    /\ observed = NoObservation

\* seq without its i-th element
Remove(seq, i) == SubSeq(seq, 1, i - 1) \o SubSeq(seq, i + 1, Len(seq))

----------------------------------------------------------------------------
(* fetchTrendingNews *)

\* up to the await of fetch
FetchTrendingNews ==
    /\ trendingCalls < MaxInFlight
    /\ loadingTrending' = TRUE
    /\ trendingCalls' = trendingCalls + 1
    /\ outcome' = [outcome EXCEPT !.trending = "started"]
    /\ UNCHANGED << articles, loading, stats, error, trendingArticles, scrapeCalls >>
    /\ UNCHANGED << selectionVars, summaryVars, summarizeCalls, resolved, observed >>

\* the 'Refresh Trending News' button, disabled={loadingTrending}
ClickRefreshTrending ==
    /\ ~loadingTrending
    /\ FetchTrendingNews

\* faulty variant: the response's articles stored as they came
TrendingSucceedsRaw(list) ==
    /\ trendingCalls > 0
    /\ trendingCalls' = trendingCalls - 1
    /\ trendingArticles' = list
    /\ loadingTrending' = FALSE
    /\ outcome' = [outcome EXCEPT !.trending = "ok", !.trended = list]
    /\ UNCHANGED << articles, loading, stats, error, scrapeCalls >>
    /\ UNCHANGED << selectionVars, summaryVars, summarizeCalls, resolved, observed >>

\* faulty variant: the results stored for the trending cards are dropped
\* with the articles they were made for
TrendingSucceedsDropsResults(list) ==
    /\ trendingCalls > 0
    /\ trendingCalls' = trendingCalls - 1
    /\ trendingArticles' = ProcessedArticles(list)
    /\ loadingTrending' = FALSE
    /\ outcome' = [outcome EXCEPT !.trending = "ok", !.trended = list]
    /\ summaries' = [k \in { j \in DOMAIN summaries : j[1] # "T" } |-> summaries[k]]
    /\ UNCHANGED << articles, loading, stats, error, scrapeCalls >>
    /\ UNCHANGED << selectionVars, summarizing, expandedSummaries, summarizeCalls,
                    resolved, observed >>

\* a call settles with a success status and the body {articles: list}
TrendingSucceeds(list) ==
    /\ trendingCalls > 0
    /\ trendingCalls' = trendingCalls - 1
    /\ trendingArticles' = ProcessedArticles(list)
    /\ loadingTrending' = FALSE
    /\ outcome' = [outcome EXCEPT !.trending = "ok", !.trended = list]
    /\ UNCHANGED << articles, loading, stats, error, scrapeCalls >>
    /\ UNCHANGED << selectionVars, summaryVars, summarizeCalls, resolved, observed >>

\* faulty variant: the catch block empties the collection
TrendingFailsClears(failure) ==
    /\ trendingCalls > 0
    /\ failure \in FetchFailures
    /\ trendingCalls' = trendingCalls - 1
    /\ trendingArticles' = <<>>
    /\ loadingTrending' = FALSE
    /\ outcome' = [outcome EXCEPT !.trending = "failed"]
    /\ UNCHANGED << articles, loading, stats, error, scrapeCalls >>
    /\ UNCHANGED << selectionVars, summaryVars, summarizeCalls, resolved, observed >>

\* faulty variant: the catch block calls fetchTrendingNews again
TrendingFailsRetries(failure) ==
    /\ trendingCalls > 0
    /\ failure \in FetchFailures
    /\ trendingCalls' = trendingCalls
    /\ loadingTrending' = TRUE
    /\ outcome' = [outcome EXCEPT !.trending = "failed"]
    /\ UNCHANGED << articles, loading, stats, error, trendingArticles, scrapeCalls >>
    /\ UNCHANGED << selectionVars, summaryVars, summarizeCalls, resolved, observed >>

\* a call fails: the catch block only logs
TrendingFails(failure) ==
    /\ trendingCalls > 0
    /\ failure \in FetchFailures
    /\ trendingCalls' = trendingCalls - 1
    /\ loadingTrending' = FALSE
    /\ outcome' = [outcome EXCEPT !.trending = "failed"]
    /\ UNCHANGED << articles, loading, stats, error, trendingArticles, scrapeCalls >>
    /\ UNCHANGED << selectionVars, summaryVars, summarizeCalls, resolved, observed >>

----------------------------------------------------------------------------
(* handleScrape *)

ScrapeBody(validUrls, validFilters, validCategories) ==
    [urls |-> validUrls, filters |-> validFilters, categories |-> validCategories,
     max_results |-> 30, force_refresh |-> FALSE]

\* the early return
ScrapeRejected ==
    /\ error' = ValidationMessage
    /\ UNCHANGED << articles, loading, stats, trendingArticles, loadingTrending,
                    scrapeCalls, trendingCalls >>
    /\ UNCHANGED << selectionVars, summaryVars, summarizeCalls, resolved, observed >>

\* faulty variant: the resets include the pending flags
ScrapeStartedResetsPending(body) ==
    /\ Len(scrapeCalls) < MaxInFlight
    /\ loading' = TRUE
    /\ error' = ""
    /\ articles' = <<>>
    /\ stats' = Null
    /\ summaries' = EmptyObject
    /\ expandedSummaries' = EmptyObject
    /\ summarizing' = EmptyObject
    /\ scrapeCalls' = Append(scrapeCalls, body)
    /\ resolved' = EmptyObject
    /\ UNCHANGED << trendingArticles, loadingTrending, trendingCalls >>
    /\ UNCHANGED << selectionVars, summarizeCalls, observed >>

\* faulty variant: the resets include the three filter selections
ScrapeStartedResetsSelection(body) ==
    /\ Len(scrapeCalls) < MaxInFlight
    /\ loading' = TRUE
    /\ error' = ""
    /\ articles' = <<>>
    /\ stats' = Null
    /\ summaries' = EmptyObject
    /\ expandedSummaries' = EmptyObject
    /\ scrapeCalls' = Append(scrapeCalls, body)
    /\ resolved' = EmptyObject
    /\ selectedSource' = "all"
    /\ selectedSentiment' = "all"
    /\ selectedCategory' = "all"
    /\ UNCHANGED << summarizing, trendingArticles, loadingTrending, trendingCalls >>
    /\ UNCHANGED << summarizeCalls, observed >>

\* faulty variant: the previous articles and stats stay until the new ones
\* arrive
ScrapeStartedKeepsArticles(body) ==
    /\ Len(scrapeCalls) < MaxInFlight
    /\ loading' = TRUE
    /\ error' = ""
    /\ summaries' = EmptyObject
    /\ expandedSummaries' = EmptyObject
    /\ scrapeCalls' = Append(scrapeCalls, body)
    /\ resolved' = EmptyObject
    /\ UNCHANGED << articles, stats >>
    /\ UNCHANGED << summarizing, trendingArticles, loadingTrending, trendingCalls >>
    /\ UNCHANGED << selectionVars, summarizeCalls, observed >>

\* faulty variant: the results and panels of the trending cards are kept
ScrapeStartedKeepsTrendingResults(body) ==
    /\ Len(scrapeCalls) < MaxInFlight
    /\ loading' = TRUE
    /\ error' = ""
    /\ articles' = <<>>
    /\ stats' = Null
    /\ summaries' = [k \in { j \in DOMAIN summaries : j[1] = "T" } |-> summaries[k]]
    /\ expandedSummaries' =
           [k \in { j \in DOMAIN expandedSummaries : j[1] = "T" } |-> expandedSummaries[k]]
    /\ scrapeCalls' = Append(scrapeCalls, body)
    /\ resolved' = [k \in { j \in DOMAIN resolved : j[1] = "T" } |-> resolved[k]]
    /\ UNCHANGED << summarizing, trendingArticles, loadingTrending, trendingCalls >>
    /\ UNCHANGED << selectionVars, summarizeCalls, observed >>

\* faulty variant: without setExpandedSummaries({})
ScrapeStartedKeepsPanels(body) ==
    /\ Len(scrapeCalls) < MaxInFlight
    /\ loading' = TRUE
    /\ error' = ""
    /\ articles' = <<>>
    /\ stats' = Null
    /\ summaries' = EmptyObject
    /\ scrapeCalls' = Append(scrapeCalls, body)
    /\ resolved' = EmptyObject
    /\ UNCHANGED << summarizing, expandedSummaries, trendingArticles, loadingTrending,
                    trendingCalls >>
    /\ UNCHANGED << selectionVars, summarizeCalls, observed >>

\* faulty variant: without setStats(null)
ScrapeStartedKeepsStats(body) ==
    /\ Len(scrapeCalls) < MaxInFlight
    /\ loading' = TRUE
    /\ error' = ""
    /\ articles' = <<>>
    /\ summaries' = EmptyObject
    /\ expandedSummaries' = EmptyObject
    /\ scrapeCalls' = Append(scrapeCalls, body)
    /\ resolved' = EmptyObject
    /\ UNCHANGED << stats, summarizing, trendingArticles, loadingTrending, trendingCalls >>
    /\ UNCHANGED << selectionVars, summarizeCalls, observed >>

\* the resets and the call of fetch
ScrapeStarted(body) ==
    /\ Len(scrapeCalls) < MaxInFlight
    /\ loading' = TRUE
    /\ error' = ""
    /\ articles' = <<>>
    /\ stats' = Null
    /\ summaries' = EmptyObject
    /\ expandedSummaries' = EmptyObject
    /\ scrapeCalls' = Append(scrapeCalls, body)
    /\ resolved' = EmptyObject
    /\ UNCHANGED << summarizing, trendingArticles, loadingTrending, trendingCalls >>
    /\ UNCHANGED << selectionVars, summarizeCalls, observed >>

\* history of a call of handleScrape: the form it read and how it went
Submitted(urls, filters, categories, rejected) ==
    outcome' = [outcome EXCEPT
                   !.scrape = IF rejected THEN "invalid" ELSE "started",
                   !.asked = << [urls |-> urls, filters |-> filters,
                                 categories |-> categories] >>,
                   !.scraped = IF rejected THEN @ ELSE <<>>]

\* faulty variant: the validation looks at the URLs only
HandleScrapeUrlsOnly(urls, filters, categories) ==
    LET validUrls == ValidEntries(urls)
        validFilters == ValidEntries(filters)
        validCategories == ValidEntries(categories)
        rejected == Len(validUrls) = 0
    IN  /\ IF rejected
           THEN ScrapeRejected
           ELSE ScrapeStarted(ScrapeBody(validUrls, validFilters, validCategories))
        /\ Submitted(urls, filters, categories, rejected)

\* up to the await of fetch, or up to the early return
HandleScrape(urls, filters, categories) ==
    LET validUrls == ValidEntries(urls)
        validFilters == ValidEntries(filters)
        validCategories == ValidEntries(categories)
        rejected == Len(validUrls) = 0 \/ Len(validFilters) = 0
    IN  /\ IF rejected
           THEN ScrapeRejected
           ELSE ScrapeStarted(ScrapeBody(validUrls, validFilters, validCategories))
        /\ Submitted(urls, filters, categories, rejected)

\* faulty variant: the button without its disabled attribute
ClickScrapeAlways(urls, filters, categories) ==
    HandleScrape(urls, filters, categories)

\* the 'Scrape News Articles' button, disabled={loading}
ClickScrape(urls, filters, categories) ==
    /\ ~loading
    /\ HandleScrape(urls, filters, categories)

\* the i-th call in flight settles with a success status and the body data
ScrapeSucceeds(i, data) ==
    /\ i \in 1..Len(scrapeCalls)
    /\ scrapeCalls' = Remove(scrapeCalls, i)
    /\ articles' = data.articles
    /\ stats' = [total |-> data.total, time |-> data.processing_time,
                 sources |-> data.sources_scraped,
                 errors |-> IF data.errors = Undefined THEN <<>> ELSE data.errors]
    /\ loading' = FALSE
    /\ outcome' = [outcome EXCEPT !.scrape = "ok", !.scraped = data.articles]
    /\ UNCHANGED << error, trendingArticles, loadingTrending, trendingCalls >>
    /\ UNCHANGED << selectionVars, summaryVars, summarizeCalls, resolved, observed >>

\* faulty variant: no finally block, the loading flag stays set on a failure
ScrapeFailsStuck(i, failure) ==
    /\ i \in 1..Len(scrapeCalls)
    /\ failure \in FetchFailures
    /\ scrapeCalls' = Remove(scrapeCalls, i)
    /\ error' = ScrapeFailedMessage
    /\ outcome' = [outcome EXCEPT !.scrape = "failed"]
    /\ UNCHANGED << articles, loading, stats, trendingArticles, loadingTrending,
                    trendingCalls >>
    /\ UNCHANGED << selectionVars, summaryVars, summarizeCalls, resolved, observed >>

\* faulty variant: the catch block shows err.message
ScrapeFailsErrMessage(i, failure) ==
    /\ i \in 1..Len(scrapeCalls)
    /\ failure \in FetchFailures
    /\ scrapeCalls' = Remove(scrapeCalls, i)
    /\ error' = IF failure = "status" THEN "Scraping failed"
                ELSE IF failure = "network" THEN FailedToFetch
                ELSE JsonSyntaxError
    /\ loading' = FALSE
    /\ outcome' = [outcome EXCEPT !.scrape = "failed"]
    /\ UNCHANGED << articles, stats, trendingArticles, loadingTrending, trendingCalls >>
    /\ UNCHANGED << selectionVars, summaryVars, summarizeCalls, resolved, observed >>

\* the i-th call in flight fails
ScrapeFails(i, failure) ==
    /\ i \in 1..Len(scrapeCalls)
    /\ failure \in FetchFailures
    /\ scrapeCalls' = Remove(scrapeCalls, i)
    /\ error' = ScrapeFailedMessage
    /\ loading' = FALSE
    /\ outcome' = [outcome EXCEPT !.scrape = "failed"]
    /\ UNCHANGED << articles, stats, trendingArticles, loadingTrending, trendingCalls >>
    /\ UNCHANGED << selectionVars, summaryVars, summarizeCalls, resolved, observed >>

----------------------------------------------------------------------------
(* handleSummarize *)

\* faulty variant: the detail of the response body is not read
ErrorMessageGeneric(response) ==
    IF response.kind = "network" THEN FailedToFetch
    ELSE IF ~response.parses THEN JsonSyntaxError
    ELSE SummarizationFailed

\* err.message in the catch block, for a call that does not succeed
ErrorMessage(response) ==
    IF response.kind = "network" THEN FailedToFetch
    ELSE IF ~response.parses THEN JsonSyntaxError
    ELSE OrElse(response.json.detail, SummarizationFailed)

Succeeded(response) == response.kind = "ok" /\ response.parses

\* the value stored under the key when the call settles with response
SummaryResult(response) ==
    IF Succeeded(response) THEN response.json
    ELSE [error |-> ErrorMessage(response)]

\* a call in flight: the arguments of handleSummarize, and as history (seen)
\* whether the call for the same key, if any, that settled while this one
\* was in flight succeeded, and whether it was issued after this one
NewCall(articleUrl, stateKey) == [url |-> articleUrl, key |-> stateKey, seen |-> <<>>]

\* the calls left in flight after the i-th one settled with response
AfterSettle(calls, i, response) ==
    LET note(j) == IF calls[j].key = calls[i].key
                   THEN [calls[j] EXCEPT
                            !.seen = << [ok |-> Succeeded(response), newer |-> i > j] >>]
                   ELSE calls[j]
    IN  Remove([j \in 1..Len(calls) |-> note(j)], i)

\* the keys of the calls in flight
KeysInFlight(calls) == { calls[j].key : j \in 1..Len(calls) }

\* faulty variant: the previous result of the key is dropped when the
\* request is issued
HandleSummarizeResets(articleUrl, stateKey) ==
    /\ Len(summarizeCalls) < MaxInFlight
    /\ summarizing' = Put(summarizing, stateKey, TRUE)
    /\ summaries' = [k \in DOMAIN summaries \ {stateKey} |-> summaries[k]]
    /\ summarizeCalls' = Append(summarizeCalls, NewCall(articleUrl, stateKey))
    /\ UNCHANGED << expandedSummaries, resolved >>
    /\ UNCHANGED << feedVars, selectionVars >>

\* up to the await of fetch
HandleSummarize(articleUrl, stateKey) ==
    /\ Len(summarizeCalls) < MaxInFlight
    /\ summarizing' = Put(summarizing, stateKey, TRUE)
    /\ summarizeCalls' = Append(summarizeCalls, NewCall(articleUrl, stateKey))
    /\ UNCHANGED << summaries, expandedSummaries, resolved >>
    /\ UNCHANGED << feedVars, selectionVars >>

\* faulty variant: the button without its disabled attribute
ClickSummarizeAlways(card) ==
    /\ card \in Cards
    /\ HandleSummarize(card.article.url, card.key)
    /\ UNCHANGED observed

\* the 'AI Summary' button of a card, disabled={summarizing[stateKey]}
ClickSummarize(card) ==
    /\ card \in Cards
    /\ ~Get(summarizing, card.key)
    /\ HandleSummarize(card.article.url, card.key)
    /\ UNCHANGED observed

\* faulty variant: the response of a call is dropped when a call issued
\* later for the same key is in flight
SummarizeSettlesIssuedLast(i, response) ==
    /\ i \in 1..Len(summarizeCalls)
    /\ response \in SummarizeResponses
    /\ LET call == summarizeCalls[i]
           stale == \E j \in (i + 1)..Len(summarizeCalls) :
                        summarizeCalls[j].key = call.key
       IN  /\ summaries' = IF stale THEN summaries
                            ELSE Put(summaries, call.key, SummaryResult(response))
           /\ expandedSummaries' = IF stale THEN expandedSummaries
                                    ELSE Put(expandedSummaries, call.key, TRUE)
           /\ summarizing' = Put(summarizing, call.key, FALSE)
           /\ resolved' = Put(resolved, call.key, [url |-> call.url, after |-> call.seen])
    /\ summarizeCalls' = AfterSettle(summarizeCalls, i, response)
    /\ UNCHANGED << feedVars, selectionVars >>

\* faulty variant: a panel the user collapsed stays collapsed
SummarizeSettlesKeepsPanel(i, response) ==
    /\ i \in 1..Len(summarizeCalls)
    /\ response \in SummarizeResponses
    /\ LET call == summarizeCalls[i]
       IN  /\ summaries' = Put(summaries, call.key, SummaryResult(response))
           /\ expandedSummaries' =
                  IF call.key \in DOMAIN expandedSummaries THEN expandedSummaries
                  ELSE Put(expandedSummaries, call.key, TRUE)
           /\ summarizing' = Put(summarizing, call.key, FALSE)
           /\ resolved' = Put(resolved, call.key, [url |-> call.url, after |-> call.seen])
    /\ summarizeCalls' = AfterSettle(summarizeCalls, i, response)
    /\ UNCHANGED << feedVars, selectionVars >>

\* faulty variant: setSummaries without the spread of prev
SummarizeSettlesReplaces(i, response) ==
    /\ i \in 1..Len(summarizeCalls)
    /\ response \in SummarizeResponses
    /\ LET call == summarizeCalls[i]
       IN  /\ summaries' = Put(EmptyObject, call.key, SummaryResult(response))
           /\ expandedSummaries' = Put(expandedSummaries, call.key, TRUE)
           /\ summarizing' = Put(summarizing, call.key, FALSE)
           /\ resolved' = Put(resolved, call.key, [url |-> call.url, after |-> call.seen])
    /\ summarizeCalls' = AfterSettle(summarizeCalls, i, response)
    /\ UNCHANGED << feedVars, selectionVars >>

\* faulty variant: the response is dropped when the card of the key no
\* longer shows the article the call was made for
SummarizeSettlesIfCurrent(i, response) ==
    /\ i \in 1..Len(summarizeCalls)
    /\ response \in SummarizeResponses
    /\ LET call == summarizeCalls[i]
           current == \E card \in Cards :
                         card.key = call.key /\ card.article.url = call.url
       IN  /\ summaries' = IF current
                            THEN Put(summaries, call.key, SummaryResult(response))
                            ELSE summaries
           /\ expandedSummaries' = IF current
                                    THEN Put(expandedSummaries, call.key, TRUE)
                                    ELSE expandedSummaries
           /\ summarizing' = Put(summarizing, call.key, FALSE)
           /\ resolved' = Put(resolved, call.key, [url |-> call.url, after |-> call.seen])
    /\ summarizeCalls' = AfterSettle(summarizeCalls, i, response)
    /\ UNCHANGED << feedVars, selectionVars >>

\* the i-th call in flight settles: the try block after the await or the
\* catch block, then the finally block
SummarizeSettles(i, response) ==
    /\ i \in 1..Len(summarizeCalls)
    /\ response \in SummarizeResponses
    /\ LET call == summarizeCalls[i]
       IN  /\ summaries' = Put(summaries, call.key, SummaryResult(response))
           /\ expandedSummaries' = Put(expandedSummaries, call.key, TRUE)
           /\ summarizing' = Put(summarizing, call.key, FALSE)
           /\ resolved' = Put(resolved, call.key, [url |-> call.url, after |-> call.seen])
    /\ summarizeCalls' = AfterSettle(summarizeCalls, i, response)
    /\ UNCHANGED << feedVars, selectionVars >>

----------------------------------------------------------------------------
(* toggleSummary *)

\* faulty variant: collapsing the panel discards the result of the key
ToggleSummaryDiscards(stateKey) ==
    /\ expandedSummaries' =
           Put(expandedSummaries, stateKey, ~Get(expandedSummaries, stateKey))
    /\ summaries' = IF Get(expandedSummaries, stateKey)
                    THEN [k \in DOMAIN summaries \ {stateKey} |-> summaries[k]]
                    ELSE summaries
    /\ UNCHANGED << summarizing, summarizeCalls, resolved >>
    /\ UNCHANGED << feedVars, selectionVars >>

ToggleSummary(stateKey) ==
    /\ expandedSummaries' =
           Put(expandedSummaries, stateKey, ~Get(expandedSummaries, stateKey))
    /\ UNCHANGED << summarizing, summaries, summarizeCalls, resolved >>
    /\ UNCHANGED << feedVars, selectionVars >>

\* faulty variant: the toggle button rendered for every card
ClickToggleAlways(card) ==
    /\ card \in Cards
    /\ ToggleSummary(card.key)
    /\ UNCHANGED observed

\* the toggle button of renderSummarySection, rendered when summaries[stateKey]
ClickToggle(card) ==
    /\ card \in Cards
    /\ card.key \in DOMAIN summaries
    /\ ToggleSummary(card.key)
    /\ UNCHANGED observed

----------------------------------------------------------------------------
(* The filter buttons, rendered when allArticles.length > 0 *)

Elements(seq) == { seq[i] : i \in 1..Len(seq) }

SetSelectedSource(value) ==
    /\ Len(allArticles) > 0
    /\ value \in {"all"} \cup Elements(uniqueSources)
    /\ selectedSource' = value
    /\ UNCHANGED << selectedSentiment, selectedCategory >>
    /\ UNCHANGED << feedVars, summaryVars, summarizeCalls, resolved, observed >>

SetSelectedSentiment(value) ==
    /\ Len(allArticles) > 0
    /\ value \in {"all"} \cup Elements(SentimentButtons)
    /\ selectedSentiment' = value
    /\ UNCHANGED << selectedSource, selectedCategory >>
    /\ UNCHANGED << feedVars, summaryVars, summarizeCalls, resolved, observed >>

SetSelectedCategory(value) ==
    /\ Len(allArticles) > 0
    /\ value \in {"all"} \cup Elements(uniqueCategories)
    /\ selectedCategory' = value
    /\ UNCHANGED << selectedSource, selectedSentiment >>
    /\ UNCHANGED << feedVars, summaryVars, summarizeCalls, resolved, observed >>

----------------------------------------------------------------------------
(* The component driven through its user interface.  The responses are     *)
(* drawn from small sets: two /scrape results that put different articles  *)
(* at index 0, one /trending result, and a success and a network failure   *)
(* of /summarize.                                                          *)

UiScrapeLists == { << ScrapedA1, ScrapedA2 >>, << ScrapedA2 >> }
UiTrendingLists == { << TrendingT1 >> }
UiFormInputs == { f \in FormInputs : f.categories = << <<"x">> >> }

Next ==
    \/ ClickRefreshTrending
    \/ \E list \in UiTrendingLists : TrendingSucceeds(list)
    \/ \E failure \in FetchFailures : TrendingFails(failure)
    \/ \E form \in UiFormInputs : ClickScrape(form.urls, form.filters, form.categories)
    \/ \E i \in 1..Len(scrapeCalls), list \in UiScrapeLists :
           ScrapeSucceeds(i, ScrapeData(list))
    \/ \E i \in 1..Len(scrapeCalls), failure \in FetchFailures : ScrapeFails(i, failure)
    \/ \E card \in Cards : ClickSummarize(card)
    \/ \E i \in 1..Len(summarizeCalls), response \in UiSummarizeResponses :
           SummarizeSettles(i, response) /\ UNCHANGED observed
    \/ \E card \in Cards : ClickToggle(card)
    \/ \E value \in {"all"} \cup Elements(uniqueSources) : SetSelectedSource(value)

Spec == Init /\ [][Next]_vars

----------------------------------------------------------------------------
(* The two feeds and the filters alone, with every response of the sets    *)
(* ScrapeLists and TrendingLists and every form input.                     *)

NextFeeds ==
    \/ ClickRefreshTrending
    \/ \E list \in TrendingLists : TrendingSucceeds(list)
    \/ \E failure \in FetchFailures : TrendingFails(failure)
    \/ \E form \in FormInputs : ClickScrape(form.urls, form.filters, form.categories)
    \/ \E i \in 1..Len(scrapeCalls), list \in ScrapeLists :
           ScrapeSucceeds(i, ScrapeData(list))
    \/ \E i \in 1..Len(scrapeCalls), failure \in FetchFailures : ScrapeFails(i, failure)
    \/ \E value \in {"all"} \cup Elements(uniqueSources) : SetSelectedSource(value)
    \/ \E value \in {"all"} \cup Elements(SentimentButtons) : SetSelectedSentiment(value)
    \/ \E value \in {"all"} \cup Elements(uniqueCategories) : SetSelectedCategory(value)

SpecFeeds == Init /\ [][NextFeeds]_vars

----------------------------------------------------------------------------
(* The summarization handlers called directly: handleSummarize without the *)
(* disabled attribute of the button that calls it, so that calls for one   *)
(* key overlap.  SpecSummarize has two keys and three responses,           *)
(* SpecResponses one key and every response of SummarizeResponses.         *)

HandlerKeys == { StateKey("A", 0), StateKey("T", 0) }
HandlerUrl(key) == IF key[1] = "A" THEN ScrapedA1.url ELSE TrendingT1.url

RacingResponses ==
    { r \in SummarizeResponses : (r.kind = "ok" /\ r.parses) \/ r.kind = "network" }

\* what the i-th call in flight finds when it settles with response: whether
\* the panel of its key had been collapsed, and whether the call was in
\* flight together with a call for another key (one is in flight now, or the
\* call that settled before this one, with no call issued since, was)
Observation(i, response) ==
    LET key == summarizeCalls[i].key
    IN  [response |-> << response >>,
         collapsed |-> key \in DOMAIN summaries /\ ~Get(expandedSummaries, key),
         crossed |-> KeysInFlight(summarizeCalls) # {key} \/ observed.crossed]

NextSummarize ==
    \/ \E key \in HandlerKeys :
           HandleSummarize(HandlerUrl(key), key) /\ observed' = NoObservation
    \/ \E i \in 1..Len(summarizeCalls), response \in RacingResponses :
           SummarizeSettles(i, response) /\ observed' = Observation(i, response)
    \/ \E key \in HandlerKeys : ToggleSummary(key) /\ UNCHANGED observed

SpecSummarize == Init /\ [][NextSummarize]_vars

NextResponses ==
    \/ HandleSummarize(ScrapedA1.url, StateKey("A", 0)) /\ observed' = NoObservation
    \/ \E i \in 1..Len(summarizeCalls), response \in SummarizeResponses :
           SummarizeSettles(i, response) /\ observed' = Observation(i, response)
    \/ ToggleSummary(StateKey("A", 0)) /\ UNCHANGED observed

SpecResponses == Init /\ [][NextResponses]_vars

----------------------------------------------------------------------------
(* The component with every backend call settling sooner or later: the     *)
(* three endpoints, one /scrape result, no toggles and no filters.  Through *)
(* the buttons each endpoint, and each key of /summarize, has at most one   *)
(* call in flight, which stays in flight until it settles.                  *)

CardKeys == { StateKey("A", 0), StateKey("A", 1), StateKey("T", 0) }

TrendingSettles ==
    \/ \E list \in UiTrendingLists : TrendingSucceeds(list)
    \/ \E failure \in FetchFailures : TrendingFails(failure)

ScrapeSettles ==
    \/ \E i \in 1..Len(scrapeCalls) : ScrapeSucceeds(i, ScrapeData(<< ScrapedA1, ScrapedA2 >>))
    \/ \E i \in 1..Len(scrapeCalls), failure \in FetchFailures : ScrapeFails(i, failure)

SummarizeSettlesFor(key) ==
    \E i \in 1..Len(summarizeCalls), response \in UiSummarizeResponses :
       /\ summarizeCalls[i].key = key
       /\ SummarizeSettles(i, response)
       /\ UNCHANGED observed

NextLive ==
    \/ ClickRefreshTrending
    \/ TrendingSettles
    \/ \E form \in UiFormInputs : ClickScrape(form.urls, form.filters, form.categories)
    \/ ScrapeSettles
    \/ \E card \in Cards : ClickSummarize(card)
    \/ \E key \in CardKeys : SummarizeSettlesFor(key)

Fairness ==
    /\ WF_vars(TrendingSettles)
    /\ WF_vars(ScrapeSettles)
    /\ \A key \in CardKeys : WF_vars(SummarizeSettlesFor(key))

SpecLive == Init /\ [][NextLive]_vars /\ Fairness

----------------------------------------------------------------------------
(* The component with its three filters and every handler, with one article *)
(* per feed: the cards A-0 and T-0.                                          *)

NextSelection ==
    \/ ClickRefreshTrending
    \/ TrendingSucceeds(<< TrendingT1 >>)
    \/ \E failure \in FetchFailures : TrendingFails(failure)
    \/ \E form \in UiFormInputs : ClickScrape(form.urls, form.filters, form.categories)
    \/ \E i \in 1..Len(scrapeCalls) : ScrapeSucceeds(i, ScrapeData(<< ScrapedA2 >>))
    \/ \E i \in 1..Len(scrapeCalls), failure \in FetchFailures : ScrapeFails(i, failure)
    \/ \E card \in Cards : ClickSummarize(card)
    \/ \E i \in 1..Len(summarizeCalls), response \in UiSummarizeResponses :
           SummarizeSettles(i, response) /\ UNCHANGED observed
    \/ \E card \in Cards : ClickToggle(card)
    \/ \E value \in {"all"} \cup Elements(uniqueSources) : SetSelectedSource(value)
    \/ \E value \in {"all"} \cup Elements(SentimentButtons) : SetSelectedSentiment(value)
    \/ \E value \in {"all"} \cup Elements(uniqueCategories) : SetSelectedCategory(value)

SpecSelection == Init /\ [][NextSelection]_vars

----------------------------------------------------------------------------
(* The component with feeds that are fetched again: two /scrape and two    *)
(* /trending results that put different articles at index 0, and the       *)
(* summaries of the cards; no toggles and no filters.                      *)

RefetchResponses == { r \in UiSummarizeResponses : r.kind = "ok" }

NextRefetch ==
    \/ ClickRefreshTrending
    \/ \E list \in TrendingLists \ { <<>> } : TrendingSucceeds(list)
    \/ \E failure \in FetchFailures : TrendingFails(failure)
    \/ ClickScrape(<< <<"x">> >>, << <<"x">> >>, << <<"x">> >>)
    \/ \E i \in 1..Len(scrapeCalls), list \in UiScrapeLists :
           ScrapeSucceeds(i, ScrapeData(list))
    \/ \E i \in 1..Len(scrapeCalls), failure \in FetchFailures : ScrapeFails(i, failure)
    \/ \E card \in Cards : ClickSummarize(card)
    \/ \E i \in 1..Len(summarizeCalls), response \in RefetchResponses :
           SummarizeSettles(i, response) /\ UNCHANGED observed

SpecRefetch == Init /\ [][NextRefetch]_vars

----------------------------------------------------------------------------
(* Properties.  A step of a handler is recognised by what it does to the   *)
(* calls in flight; the response a /summarize call settled with is read    *)
(* from observed, the form handleScrape read from outcome.asked.           *)

\* a /summarize call settles in this step
Settling == Len(summarizeCalls') = Len(summarizeCalls) - 1

KeySeq(calls) == [j \in 1..Len(calls) |-> calls[j].key]

\* the key of the call that settles in this step
SettledKeys ==
    { summarizeCalls[i].key :
         i \in { j \in 1..Len(summarizeCalls) :
                    KeySeq(summarizeCalls') = Remove(KeySeq(summarizeCalls), j) } }

\* a /summarize call is issued in this step, and its key
Issuing == Len(summarizeCalls') = Len(summarizeCalls) + 1
IssuedKey == summarizeCalls'[Len(summarizeCalls')].key

\* the response the call that settled last settled with
Response == observed.response[1]

\* obj holds value under key
Holds(obj, key, value) == key \in DOMAIN obj /\ obj[key] = value

\* obj holds an {error} record under key
HoldsError(obj, key) == key \in DOMAIN obj /\ DOMAIN obj[key] = {"error"}

\* every key but key has in objNext what it had in obj
OthersKept(obj, objNext, key) ==
    /\ DOMAIN objNext \ {key} = DOMAIN obj \ {key}
    /\ \A other \in DOMAIN obj \ {key} : objNext[other] = obj[other]

C2_EveryArticleClassified ==
    \A i \in 1..Len(allArticles) :
       TruthyStr(allArticles[i].sentiment) /\ TruthyStr(allArticles[i].category)

\* C2 (amended): every article of the trending collection has a non-empty
\* sentiment and category; the scraped collection holds the articles of the
\* /scrape response as they came
C2_TrendingClassified ==
    /\ \A i \in 1..Len(trendingArticles) :
          /\ trendingArticles[i].sentiment \notin {Undefined, ""}
          /\ trendingArticles[i].category \notin {Undefined, ""}
    /\ articles = outcome.scraped

\* C2 witness: a trending article that came without sentiment and category,
\* next to a scraped article that came, and is held, without them
C2_Witness_BothFeeds ==
    /\ \E i \in 1..Len(trendingArticles) :
          /\ outcome.trended[i].sentiment = Undefined
          /\ outcome.trended[i].category = Undefined
    /\ \E i \in 1..Len(articles) :
          articles[i].sentiment = Undefined /\ articles[i].category = Undefined

\* C3 (as stated): a stored trending article has "unclassified", "General"
\* and 0 where the raw article lacked sentiment, category and relevance_score,
\* and the raw value where it was present
C3_DefaultsUnclassifiedZero ==
    /\ Len(trendingArticles) = Len(outcome.trended)
    /\ \A i \in 1..Len(trendingArticles) :
          LET raw == outcome.trended[i]
              stored == trendingArticles[i]
          IN  /\ stored.sentiment =
                    IF raw.sentiment = Undefined THEN "unclassified" ELSE raw.sentiment
              /\ stored.category =
                    IF raw.category = Undefined THEN "General" ELSE raw.category
              /\ stored.relevance_score =
                    IF raw.relevance_score = NoScore THEN 0 ELSE raw.relevance_score

\* C3 (amended): a stored trending article has "neutral", "General" and 500
\* where the raw article's sentiment, category and relevance_score were
\* absent, empty or 0, the raw value elsewhere, and the raw url and source
C3_DefaultsNeutral500 ==
    /\ Len(trendingArticles) = Len(outcome.trended)
    /\ \A i \in 1..Len(trendingArticles) :
          LET raw == outcome.trended[i]
              stored == trendingArticles[i]
          IN  /\ stored.sentiment =
                    IF raw.sentiment \in {Undefined, ""} THEN "neutral" ELSE raw.sentiment
              /\ stored.category =
                    IF raw.category \in {Undefined, ""} THEN "General" ELSE raw.category
              /\ stored.relevance_score =
                    IF raw.relevance_score \in {NoScore, 0} THEN 500
                    ELSE raw.relevance_score
              /\ stored.url = raw.url
              /\ stored.source = raw.source

\* C3 witness: a raw article without the three fields and one with a
\* sentiment and a relevance_score of 0 have been stored
C3_Witness_Defaults ==
    /\ \E i \in 1..Len(trendingArticles) :
          /\ outcome.trended[i].sentiment = Undefined
          /\ outcome.trended[i].relevance_score = NoScore
          /\ trendingArticles[i].sentiment = "neutral"
          /\ trendingArticles[i].relevance_score = 500
    /\ \E i \in 1..Len(trendingArticles) :
          /\ outcome.trended[i].sentiment = "negative"
          /\ outcome.trended[i].relevance_score = 0
          /\ trendingArticles[i].sentiment = "negative"
          /\ trendingArticles[i].relevance_score = 500

\* every entry of the list is blank
AllBlank(entries) ==
    \A i \in 1..Len(entries) : \A j \in 1..Len(entries[i]) : entries[i][j] = SP

\* handleScrape runs in this step on a form without a non-blank URL or
\* without a non-blank filter
RejectedSubmission ==
    /\ outcome'.asked # <<>>
    /\ outcome'.asked # outcome.asked \/ outcome'.scrape # outcome.scrape
    /\ AllBlank(outcome'.asked[1].urls) \/ AllBlank(outcome'.asked[1].filters)

\* C4: handleScrape on a form without a non-blank URL or without a non-blank
\* filter issues no /scrape call, sets the validation message and leaves
\* articles, stats, loading, summaries and the expanded flags as they were
C4_InvalidFormRejected ==
    [][ RejectedSubmission =>
          /\ scrapeCalls' = scrapeCalls
          /\ error' = ValidationMessage
          /\ UNCHANGED << articles, stats, loading, summaries, expandedSummaries >> ]_vars

\* C4 witness: the form with a blank filter has been rejected, and the
\* validation message stands next to the articles, the stats and a summary
C4_Witness_RejectedOverResults ==
    /\ outcome.scrape = "invalid"
    /\ AllBlank(outcome.asked[1].filters)
    /\ error = ValidationMessage
    /\ scrapeCalls = <<>>
    /\ articles # <<>>
    /\ stats # Null
    /\ summaries # EmptyObject

\* C5: a /trending call that fails leaves the trending collection and the
\* error banner as they were and the loading flag false; a /scrape call that
\* fails leaves the scraped collection empty; a call that succeeds replaces
\* the collection of its feed by the articles of the response (the trending
\* ones with the defaults filled in) and leaves the other collection as it was
C5_FeedOutcomes ==
    [][ /\ (trendingCalls' < trendingCalls /\ outcome'.trending = "failed") =>
              /\ trendingArticles' = trendingArticles
              /\ error' = error
              /\ loadingTrending' = FALSE
              /\ articles' = articles
        /\ (trendingCalls' < trendingCalls /\ outcome'.trending = "ok") =>
              /\ Len(trendingArticles') = Len(outcome'.trended)
              /\ \A i \in 1..Len(trendingArticles') :
                    trendingArticles'[i].url = outcome'.trended[i].url
              /\ articles' = articles
        /\ (Len(scrapeCalls') < Len(scrapeCalls) /\ outcome'.scrape = "failed") =>
              /\ articles' = <<>>
              /\ trendingArticles' = trendingArticles
        /\ (Len(scrapeCalls') < Len(scrapeCalls) /\ outcome'.scrape = "ok") =>
              /\ articles' = outcome'.scraped
              /\ trendingArticles' = trendingArticles ]_vars

\* C5 witness: a refresh of the trending feed failed and the articles of the
\* earlier response are still there, next to the scraped ones, with no error
C5_Witness_FailedRefresh ==
    /\ outcome.trending = "failed"
    /\ trendingCalls = 0
    /\ trendingArticles # <<>>
    /\ articles # <<>>
    /\ loadingTrending = FALSE
    /\ error = ""

\* C6: when a /summarize call settles with a success status and a payload,
\* the payload becomes the result of its key, the pending flag of the key
\* false and its panel expanded, collapsed before or not
C6_SuccessStoredAndShown ==
    [][ (Settling /\ Response'.kind = "ok" /\ Response'.parses) =>
          \A key \in SettledKeys :
             /\ Holds(summaries', key, Response'.json)
             /\ DOMAIN Response'.json =
                   {"summary", "original_length", "summary_length", "compression_ratio"}
             /\ Holds(summarizing', key, FALSE)
             /\ Holds(expandedSummaries', key, TRUE) ]_vars

\* C6 witness: the call that settled last succeeded and found the panel of
\* its key collapsed; nothing happened since, and the panel is expanded
C6_Witness_CollapsedInFlight ==
    /\ observed.response # <<>>
    /\ Response.kind = "ok" /\ Response.parses
    /\ observed.collapsed
    /\ summarizeCalls = <<>>
    /\ \E key \in DOMAIN summaries :
          /\ summaries[key] = Response.json
          /\ expandedSummaries[key] = TRUE
          /\ summarizing[key] = FALSE

\* the backend's detail message, when the response carried one
HasDetail(response) ==
    /\ response.kind = "status"
    /\ response.parses
    /\ response.json.detail \notin {Undefined, ""}

\* C7 (as stated): when a /summarize call fails, the result of its key
\* becomes {error: m}, m the detail of the response when it carried one and
\* "Summarization failed" in every other case; pending false, panel expanded
C7_DetailOrGenericMessage ==
    [][ (Settling /\ ~(Response'.kind = "ok" /\ Response'.parses)) =>
          \A key \in SettledKeys :
             /\ Holds(summaries', key,
                      [error |-> IF HasDetail(Response') THEN Response'.json.detail
                                 ELSE "Summarization failed"])
             /\ Holds(summarizing', key, FALSE)
             /\ Holds(expandedSummaries', key, TRUE) ]_vars

\* C7 (amended): when a /summarize call fails, the result of its key becomes
\* {error: m}; m is the detail of the body of a non-success response when the
\* body is JSON with a non-empty detail, "Summarization failed" when that
\* body is JSON without one, the message of the error fetch rejected with
\* when the network failed, and the message of the error response.json()
\* threw when the body is not JSON, whatever the status; pending false, panel
\* expanded
C7_MessageByFailure ==
    [][ (Settling /\ ~(Response'.kind = "ok" /\ Response'.parses)) =>
          \A key \in SettledKeys :
             /\ Holds(summaries', key,
                      [error |->
                          CASE Response'.kind = "network" -> "Failed to fetch"
                            [] Response'.kind # "network" /\ ~Response'.parses ->
                                  "Unexpected token < in JSON at position 0"
                            [] HasDetail(Response') -> Response'.json.detail
                            [] OTHER -> "Summarization failed"])
             /\ Holds(summarizing', key, FALSE)
             /\ Holds(expandedSummaries', key, TRUE) ]_vars

\* C7 witness: the call that settled last was rejected by the network and
\* its key holds the message of that error
C7_Witness_NetworkError ==
    /\ observed.response # <<>>
    /\ Response.kind = "network"
    /\ \E key \in DOMAIN summaries :
          /\ summaries[key] = [error |-> "Failed to fetch"]
          /\ expandedSummaries[key] = TRUE
          /\ summarizing[key] = FALSE

\* C8: issuing a /summarize call for a key sets the pending flag of the key
\* and changes nothing else: not the results, not the expanded flags, not
\* the pending flag of another key, not the feeds or the filters
C8_IssueOnlySetsPending ==
    [][ Issuing =>
          /\ Holds(summarizing', IssuedKey, TRUE)
          /\ OthersKept(summarizing, summarizing', IssuedKey)
          /\ DOMAIN summarizing' = DOMAIN summarizing \cup {IssuedKey}
          /\ UNCHANGED << summaries, expandedSummaries >>
          /\ UNCHANGED << articles, loading, stats, error, trendingArticles,
                          loadingTrending, selectionVars >> ]_vars

\* C8 witness: a call is in flight for a key whose earlier result is still
\* stored, with its panel collapsed as the user left it
C8_Witness_ResultKeptWhilePending ==
    \E i \in 1..Len(summarizeCalls) :
       LET key == summarizeCalls[i].key
       IN  /\ Get(summarizing, key)
           /\ key \in DOMAIN summaries
           /\ key \in DOMAIN expandedSummaries
           /\ expandedSummaries[key] = FALSE

\* C9: a /summarize call that settles changes the pending flag, the result
\* and the expanded flag of its own key only, and the key holds the result of
\* the response to that call
C9_CompletionsIndependent ==
    [][ Settling =>
          \A key \in SettledKeys :
             /\ OthersKept(summarizing, summarizing', key)
             /\ OthersKept(summaries, summaries', key)
             /\ OthersKept(expandedSummaries, expandedSummaries', key)
             /\ IF Response'.kind = "ok" /\ Response'.parses
                THEN Holds(summaries', key, Response'.json)
                ELSE HoldsError(summaries', key) ]_vars

\* C9 witness: calls for two keys were in flight together and have settled;
\* each key holds a result of a call for its own article, one a payload and
\* the other an error
C9_Witness_TwoKeysSettled ==
    /\ summarizeCalls = <<>>
    /\ observed.crossed
    /\ DOMAIN resolved = HandlerKeys
    /\ \A key \in HandlerKeys :
          /\ resolved[key].url = HandlerUrl(key)
          /\ resolved[key].after = <<>>
          /\ summarizing[key] = FALSE
    /\ \E key \in HandlerKeys : summaries[key] \in SummaryPayloads
    /\ \E key \in HandlerKeys : summaries[key] = [error |-> "Failed to fetch"]

\* C10 (as stated): the 'AI Summary' button of a card takes a request while
\* a request for the key of the card is pending
C10_AcceptedWhilePending ==
    \A card \in Cards :
       (Get(summarizing, card.key) /\ Len(summarizeCalls) < MaxInFlight) =>
          ENABLED ClickSummarize(card)

\* C10 (amended): the 'AI Summary' button of a card takes no request while a
\* request for the key of the card is pending, so no two calls in flight
\* have the same key
C10_OneCallPerKey ==
    /\ \A card \in Cards : Get(summarizing, card.key) => ~ENABLED ClickSummarize(card)
    /\ \A i, j \in 1..Len(summarizeCalls) :
          i # j => summarizeCalls[i].key # summarizeCalls[j].key

\* C10 witness: the request for the key of a card on screen is pending, and
\* one more call could be in flight
C10_Witness_PendingCard ==
    \E card \in Cards :
       /\ Get(summarizing, card.key)
       /\ card.key \in KeysInFlight(summarizeCalls)
       /\ Len(summarizeCalls) < MaxInFlight

\* a step of toggleSummary: the only step that changes the state without
\* issuing or settling a call, reading the scrape form or setting a filter
ToggleStep ==
    /\ vars' # vars
    /\ UNCHANGED << summarizeCalls, scrapeCalls, trendingCalls, outcome, selectionVars >>

\* C11: a key without a result cannot be toggled (its card has no toggle
\* button), and a toggle of a key with a result flips the expanded flag of
\* the key between true and false, so that a second toggle restores it
C11_ToggleFlipsStoredResult ==
    [][ ToggleStep =>
          \E key \in DOMAIN summaries :
             /\ key \in DOMAIN expandedSummaries
             /\ expandedSummaries[key] \in BOOLEAN
             /\ Holds(expandedSummaries', key, ~expandedSummaries[key])
             /\ OthersKept(expandedSummaries, expandedSummaries', key) ]_vars

\* C11 witness: a card on screen has a result, a toggle button and a panel
\* that a toggle collapsed, next to a card without result
C11_Witness_Collapsed ==
    /\ \E card \in Cards :
          /\ card.key \in DOMAIN summaries
          /\ Holds(expandedSummaries, card.key, FALSE)
    /\ \E card \in Cards :
          card.key \notin DOMAIN summaries /\ card.key \notin DOMAIN expandedSummaries

\* C12: a toggle changes the expanded flag of one key and nothing else: no
\* pending flag, no stored result, no other expanded flag
C12_ToggleFrame ==
    [][ ToggleStep =>
          /\ UNCHANGED << summarizing, summaries >>
          /\ \E key \in DOMAIN expandedSummaries' :
                OthersKept(expandedSummaries, expandedSummaries', key)
          /\ UNCHANGED << articles, loading, stats, error, trendingArticles,
                          loadingTrending >> ]_vars

\* C12 witness: the panel of a key was collapsed while a call for the key is
\* in flight; the key is pending and its result is stored, and another key
\* has a result and an expanded panel
C12_Witness_CollapsedWhilePending ==
    \E key \in DOMAIN summaries :
       /\ Holds(expandedSummaries, key, FALSE)
       /\ Get(summarizing, key)
       /\ \E other \in DOMAIN summaries \ {key} : Holds(expandedSummaries, other, TRUE)

\* C13: as long as a /summarize call is in flight the pending flag of its
\* key is true: no scrape, refresh, filter change, toggle or completion of
\* another call clears it
C13_PendingWhileInFlight ==
    \A i \in 1..Len(summarizeCalls) : Get(summarizing, summarizeCalls[i].key)

\* C13 witness: the call for the first card of the grid is still in flight
\* and pending after a scrape replaced the article of that card, with the
\* trending feed refreshed
C13_Witness_PendingAcrossScrape ==
    /\ \E i \in 1..Len(summarizeCalls) :
          /\ summarizeCalls[i].key = StateKey("A", 0)
          /\ summarizeCalls[i].url = ScrapedA1.url
          /\ Get(summarizing, summarizeCalls[i].key)
    /\ articles = << ScrapedA2 >>
    /\ outcome.trending = "ok"

\* no backend call is in flight
Idle == scrapeCalls = <<>> /\ trendingCalls = 0 /\ summarizeCalls = <<>>

ValidForm == CHOOSE f \in UiFormInputs : ~AllBlank(f.urls) /\ ~AllBlank(f.filters)

\* C14: when every call settles sooner or later, a loading flag or pending
\* flag that is true becomes false, whether the call fails or succeeds; and
\* once no call is in flight all the flags are false and the scrape button,
\* the refresh button and the summary button of every card take a request
C14_NoFlagStuck ==
    /\ loading ~> ~loading
    /\ loadingTrending ~> ~loadingTrending
    /\ \A key \in CardKeys : Get(summarizing, key) ~> ~Get(summarizing, key)
    /\ [](Idle =>
            /\ ~loading
            /\ ~loadingTrending
            /\ \A key \in DOMAIN summarizing : ~summarizing[key]
            /\ ENABLED ClickRefreshTrending
            /\ ENABLED ClickScrape(ValidForm.urls, ValidForm.filters, ValidForm.categories)
            /\ \A card \in Cards : ENABLED ClickSummarize(card))

\* C14 witness: the last /scrape call and the last /trending call failed, a
\* /summarize call failed, no call is in flight and no flag is set
C14_Witness_IdleAfterFailures ==
    /\ Idle
    /\ outcome.scrape = "failed"
    /\ outcome.trending = "failed"
    /\ \E key \in DOMAIN summaries : summaries[key] = [error |-> "Failed to fetch"]
    /\ ~loading /\ ~loadingTrending
    /\ \A key \in DOMAIN summarizing : ~summarizing[key]

\* C15: the combined view is the scraped collection followed by the trending
\* collection, each in its order: its length is the sum of their lengths,
\* and an article whose URL is in both feeds is in it twice
C15_CombinedViewIsConcatenation ==
    /\ Len(allArticles) = Len(articles) + Len(trendingArticles)
    /\ \A i \in 1..Len(articles) : allArticles[i] = articles[i]
    /\ \A j \in 1..Len(trendingArticles) :
          allArticles[Len(articles) + j] = trendingArticles[j]

\* C15 witness: both collections hold articles and one URL is in both
C15_Witness_SharedUrl ==
    /\ Len(articles) > 1
    /\ Len(trendingArticles) > 1
    /\ \E i \in 1..Len(articles), j \in 1..Len(trendingArticles) :
          articles[i].url = trendingArticles[j].url

RECURSIVE Sum(_)
Sum(counts) == IF counts = <<>> THEN 0 ELSE Head(counts) + Sum(Tail(counts))

\* the sum of the four counts of the sentiment chart
SentimentSum ==
    sentimentCounts.positive + sentimentCounts.negative + sentimentCounts.neutral
        + sentimentCounts.general

\* C16 (as stated): for the sources, the sentiments and the categories, the
\* counts the client computes sum to the length of the combined view
C16_CountsSumToLength ==
    /\ Sum(sourceCounts) = Len(allArticles)
    /\ SentimentSum = Len(allArticles)
    /\ Sum(categoryCounts) = Len(allArticles)

\* C16 (amended): the source counts sum to the length of the combined view;
\* the counts of the sentiment chart sum to the number of its articles whose
\* sentiment is positive, negative, neutral, General or missing; the category
\* counts sum to the number of its articles that have a category
C16_CountsSumToCounted ==
    /\ Sum(sourceCounts) = Len(allArticles)
    /\ SentimentSum =
          Cardinality({ i \in 1..Len(allArticles) :
                          allArticles[i].sentiment \in
                             {"positive", "negative", "neutral", "General", Undefined, ""} })
    /\ Sum(categoryCounts) =
          Cardinality({ i \in 1..Len(allArticles) :
                          allArticles[i].category \notin {Undefined, ""} })

\* C16 witness: a scraped article without category and sentiment is in the
\* combined view with trending articles; the chart counts it as general and
\* the category counts miss it
C16_Witness_UncountedCategory ==
    /\ Len(trendingArticles) > 0
    /\ \E i \in 1..Len(articles) :
          articles[i].category = Undefined /\ articles[i].sentiment = Undefined
    /\ sentimentCounts.general > 0
    /\ Sum(categoryCounts) < Len(allArticles)
    /\ Sum(categoryCounts) > 0

\* the article passes the selection: each selected value that is not 'all'
\* is the value of its field
Passes(a) ==
    /\ selectedSource = "all" \/ a.source = selectedSource
    /\ selectedSentiment = "all" \/ a.sentiment = selectedSentiment
    /\ selectedCategory = "all" \/ a.category = selectedCategory

\* the indexes of the scraped articles that pass the selection
Passing == { i \in 1..Len(articles) : Passes(articles[i]) }

\* the grid is the scraped articles that pass the selection, in their order
GridIsPassing ==
    /\ Len(filteredArticles) = Cardinality(Passing)
    /\ \A i \in Passing :
          filteredArticles[Cardinality({ j \in Passing : j <= i })] = articles[i]

\* C17: a scraped article is in the grid exactly when it passes every
\* selection that is not 'all'; the grid keeps the order of the scraped
\* collection; a selection, also one that empties the grid, does not set
\* the error
C17_GridIsConjunctiveFilter ==
    [][ GridIsPassing' /\ (selectionVars' # selectionVars => error' = error) ]_vars

\* C17 witness: with a source and a category selected the grid holds one of
\* two scraped articles, and no error is set
C17_Witness_TwoSelections ==
    /\ selectedSource # "all"
    /\ selectedCategory # "all"
    /\ Len(articles) = 2
    /\ Len(filteredArticles) = 1
    /\ error = ""

\* C18: with 'all' selected for source, sentiment and category the grid is
\* the scraped collection, and filtering the grid again with the selection
\* that produced it gives the same grid
C18_AllIsIdentityAndIdempotent ==
    /\ (selectedSource = "all" /\ selectedSentiment = "all" /\ selectedCategory = "all")
          => filteredArticles = articles
    /\ FilterBy(FilterBy(FilterBy(filteredArticles, selectedSource, "source"),
                         selectedSentiment, "sentiment"),
                selectedCategory, "category") = filteredArticles

\* C18 witness: nothing is selected, two scraped articles are in the grid
\* and trending articles are held
C18_Witness_NothingSelected ==
    /\ selectedSource = "all" /\ selectedSentiment = "all" /\ selectedCategory = "all"
    /\ Len(articles) = 2
    /\ Len(filteredArticles) = 2
    /\ Len(trendingArticles) > 0

\* the scraped articles that have no sentiment
Unanalyzed == { i \in 1..Len(articles) : articles[i].sentiment \in {Undefined, ""} }

\* C19 (as stated): every scraped article is shown under some value of the
\* sentiment filter other than 'all'; the articles without a sentiment are
\* shown under one of them
C19_EveryArticleSelectable ==
    \A i \in 1..Len(articles) :
       \E value \in Elements(SentimentButtons) :
          articles[i] \in Elements(FilterBy(articles, value, "sentiment"))

\* C19 (what the code does): the articles without a sentiment are counted in
\* the general bucket of the sentiment chart, and no value of the sentiment
\* filter other than 'all' shows a scraped article without a sentiment
C19_UnanalyzedCountedNotSelectable ==
    /\ sentimentCounts.general >= Cardinality(Unanalyzed)
    /\ Unanalyzed # {} => sentimentCounts.general > 0
    /\ \A value \in Elements(SentimentButtons) :
          \A i \in Unanalyzed :
             articles[i] \notin Elements(FilterBy(articles, value, "sentiment"))
    /\ selectedSentiment # "all" =>
          \A k \in 1..Len(filteredArticles) :
             filteredArticles[k].sentiment \notin {Undefined, ""}

\* C19 witness: 'General' is selected, a scraped article has no sentiment,
\* the chart counts it and the grid is empty
C19_Witness_GeneralSelected ==
    /\ selectedSentiment = "General"
    /\ selectedSource = "all" /\ selectedCategory = "all"
    /\ Unanalyzed # {}
    /\ sentimentCounts.general > 0
    /\ filteredArticles = <<>>

\* the index of the first combined-view article whose field has the value
FirstSeen(field, value) ==
    CHOOSE i \in 1..Len(allArticles) :
       /\ allArticles[i][field] = value
       /\ \A j \in 1..(i - 1) : allArticles[j][field] # value

\* unique holds each of the values once, in the order in which the values
\* first occur in the field of the combined view
FirstSeenOrder(unique, field, values) ==
    /\ Elements(unique) = values
    /\ \A i, j \in 1..Len(unique) :
          i < j => FirstSeen(field, unique[i]) < FirstSeen(field, unique[j])

\* the number of combined-view articles whose field has the value
Occurrences(field, value) ==
    Cardinality({ i \in 1..Len(allArticles) : allArticles[i][field] = value })

\* the values that occur in the field of the combined view
ValuesOf(field) == { allArticles[i][field] : i \in 1..Len(allArticles) }

\* C20: uniqueSources, uniqueSentiments and uniqueCategories hold every value
\* that occurs in their field of the combined view (a missing sentiment or
\* category is no value) once, in order of first occurrence, and the count
\* shown for a value is the number of combined-view articles with that value
C20_FacetsAndCounts ==
    /\ FirstSeenOrder(uniqueSources, "source", ValuesOf("source"))
    /\ FirstSeenOrder(uniqueSentiments, "sentiment", ValuesOf("sentiment") \ {Undefined, ""})
    /\ FirstSeenOrder(uniqueCategories, "category", ValuesOf("category") \ {Undefined, ""})
    /\ \A i \in 1..Len(uniqueSources) :
          sourceCounts[i] = Occurrences("source", uniqueSources[i])
    /\ \A i \in 1..Len(uniqueCategories) :
          categoryCounts[i] = Occurrences("category", uniqueCategories[i])
    /\ \A i \in 1..Len(SentimentButtons) :
          sentimentButtonCounts[i] = Occurrences("sentiment", SentimentButtons[i])

\* C20 witness: four articles of three sources are in the combined view, the
\* source seen first has two of them, and an article without category is held
C20_Witness_RepeatedSource ==
    /\ Len(allArticles) = 4
    /\ Len(uniqueSources) = 3
    /\ uniqueSources[1] = allArticles[1].source
    /\ sourceCounts[1] = 2
    /\ \E i \in 1..Len(allArticles) : allArticles[i].category = Undefined
    /\ Len(uniqueCategories) = 2

\* C21: a count shown on the 'All' button of a filter is the number of
\* articles of the scraped collection, whatever the trending collection holds
C21_AllCountsScrapedOnly ==
    \A facet \in DOMAIN allButtonCounts :
       \A i \in 1..Len(allButtonCounts[facet]) :
          allButtonCounts[facet][i] = Len(articles)

\* C21 witness: the filters are on screen with both collections non-empty, so
\* that the count on 'All' is not the size of the combined view
C21_Witness_BothCollections ==
    /\ Len(articles) = 2
    /\ Len(trendingArticles) = 2
    /\ allButtonCounts.source = << 2 >>
    /\ Len(allArticles) = 4

\* a /scrape call settles in this step, with a failure
ScrapeFailing ==
    /\ Len(scrapeCalls') = Len(scrapeCalls) - 1
    /\ outcome'.scrape = "failed"

\* C22: when a /scrape call fails, error becomes the generic scrape-failure
\* message, articles is empty, stats null and loading false, and the
\* trending collection is what it was
C22_ScrapeFailure ==
    [][ ScrapeFailing =>
          /\ error' = ScrapeFailedMessage
          /\ articles' = <<>>
          /\ stats' = Null
          /\ loading' = FALSE
          /\ trendingArticles' = trendingArticles ]_vars

\* C22 witness: a /scrape call has failed while the trending collection held
\* articles
C22_Witness_FailedScrape ==
    /\ outcome.scrape = "failed"
    /\ scrapeCalls = <<>>
    /\ error = ScrapeFailedMessage
    /\ articles = <<>> /\ stats = Null /\ ~loading
    /\ Len(trendingArticles) = 2

\* everything but the three filter selections
otherVars == << feedVars, summaryVars, summarizeCalls, resolved, observed >>

\* C23: the three filter selections are 'all' at the start; a step that
\* changes one of them is a selection of that field, which changes nothing
\* else, and a step of a scrape, a trending refresh, a summarize request or
\* completion or a toggle leaves the three as they were
C23_SelectionFrame ==
    /\ Init => selectedSource = "all" /\ selectedSentiment = "all"
                 /\ selectedCategory = "all"
    /\ [][ /\ selectedSource' # selectedSource =>
                UNCHANGED << selectedSentiment, selectedCategory, otherVars >>
           /\ selectedSentiment' # selectedSentiment =>
                UNCHANGED << selectedSource, selectedCategory, otherVars >>
           /\ selectedCategory' # selectedCategory =>
                UNCHANGED << selectedSource, selectedSentiment, otherVars >>
           /\ otherVars' # otherVars => UNCHANGED selectionVars ]_vars

\* C23 witness: the three selections made earlier stand after a scrape that
\* succeeded, while a summary is collapsed and a trending refresh and a
\* summarize request are in flight
C23_Witness_SelectionsSurvive ==
    /\ selectedSource = "The Guardian"
    /\ selectedSentiment = "neutral"
    /\ selectedCategory = "General"
    /\ outcome.scrape = "ok" /\ articles # <<>>
    /\ \E key \in DOMAIN summaries : ~Get(expandedSummaries, key)
    /\ trendingCalls > 0
    /\ summarizeCalls # <<>>

\* a call of /scrape is issued in this step
ScrapeStarting == Len(scrapeCalls') = Len(scrapeCalls) + 1

\* the card shows a result that was made for the URL of another article
ShowsStaleResult(card) ==
    /\ card.key \in DOMAIN resolved
    /\ resolved[card.key].url # card.article.url
    /\ renderSummarySection(card.key) =
           << [result |-> summaries[card.key], expanded |-> TRUE] >>

\* C24 (as stated): a step of handleScrape or of fetchTrendingNews, from
\* the call to the arrival of the new articles, keeps every result stored
\* under a key of its feed
C24_RefetchKeepsResults ==
    [][ feedVars' # feedVars =>
          \A key \in DOMAIN summaries : Holds(summaries', key, summaries[key]) ]_vars

\* C24 (amended): a step of fetchTrendingNews keeps every stored result and
\* panel, so that the result of a trending key is shown on whatever article
\* is at the index afterwards; the start of a scrape discards the results and
\* panels of both origins, the arrival of its articles keeps what was stored
\* since; a stored result changes in no other step but the settling of a
\* /summarize call for its key; a card whose key has a stored result shows
\* that result, whatever article it was made for
C24_ResultsAcrossRefetch ==
    [][ /\ trendingCalls' # trendingCalls =>
              summaries' = summaries /\ expandedSummaries' = expandedSummaries
        /\ ScrapeStarting =>
              summaries' = EmptyObject /\ expandedSummaries' = EmptyObject
        /\ Len(scrapeCalls') < Len(scrapeCalls) =>
              summaries' = summaries /\ expandedSummaries' = expandedSummaries
        /\ \A key \in DOMAIN summaries :
              \/ Holds(summaries', key, summaries[key])
              \/ Settling /\ key \in SettledKeys
              \/ ScrapeStarting
        /\ \A card \in Cards' :
              card.key \in DOMAIN summaries' =>
                 /\ Len(renderSummarySection(card.key)') = 1
                 /\ renderSummarySection(card.key)'[1].result = summaries'[card.key] ]_vars

\* C24 witness: a trending card and a grid card each show, expanded, a
\* result made for the article that was at their index before the feed was
\* fetched again
C24_Witness_StaleOnBothFeeds ==
    /\ \E card \in Cards : card.key[1] = "T" /\ ShowsStaleResult(card)
    /\ \E card \in Cards : card.key[1] = "A" /\ ShowsStaleResult(card)

\* the entry has a character that is not a space
HasText(entry) == \E k \in 1..Len(entry) : entry[k] # SP

\* every entry of the list has text
AllHaveText(entries) == \A k \in 1..Len(entries) : HasText(entries[k])

\* C26: every /scrape call in flight carries a non-empty urls list and a
\* non-empty filters list, no blank or whitespace-only entry in urls, filters
\* or categories, max_results = 30 and force_refresh = false; the lists are
\* the entries of the form that have text, in the order of the form
C26_ScrapeBody ==
    /\ \A i \in 1..Len(scrapeCalls) :
          LET body == scrapeCalls[i]
          IN  /\ body.urls # <<>> /\ AllHaveText(body.urls)
              /\ body.filters # <<>> /\ AllHaveText(body.filters)
              /\ AllHaveText(body.categories)
              /\ body.max_results = 30
              /\ body.force_refresh = FALSE
    /\ [][ ScrapeStarting =>
             LET body == scrapeCalls'[Len(scrapeCalls')]
                 form == outcome'.asked[1]
             IN  /\ body.urls = SelectSeq(form.urls, HasText)
                 /\ body.filters = SelectSeq(form.filters, HasText)
                 /\ body.categories = SelectSeq(form.categories, HasText) ]_vars

\* C26 witness: a call in flight for a form with blank entries: the one URL
\* with text is sent as typed, the categories list is empty
C26_Witness_BlanksRemoved ==
    /\ Len(scrapeCalls) = 1
    /\ Len(outcome.asked[1].urls) = 2
    /\ scrapeCalls[1].urls = << << SP, "x", SP >> >>
    /\ Len(outcome.asked[1].filters) = 2
    /\ Len(scrapeCalls[1].filters) = 1
    /\ outcome.asked[1].categories # <<>>
    /\ scrapeCalls[1].categories = <<>>

\* the number of backend calls in flight
InFlight == Len(scrapeCalls) + trendingCalls + Len(summarizeCalls)

\* C27: the only call issued without a user action is the /trending call of
\* the mount; a call is issued only in a step that takes a button from
\* enabled to disabled (scrape, refresh, the summary button of the key), one
\* call per step; a step in which a call fails or succeeds takes that call
\* out of flight and issues none
C27_NoAutomaticRetry ==
    /\ Init => trendingCalls = 1 /\ scrapeCalls = <<>> /\ summarizeCalls = <<>>
    /\ [][ /\ trendingCalls' > trendingCalls => ~loadingTrending /\ loadingTrending'
           /\ Len(scrapeCalls') > Len(scrapeCalls) => ~loading /\ loading'
           /\ Len(summarizeCalls') > Len(summarizeCalls) =>
                 ~Get(summarizing, IssuedKey) /\ Get(summarizing', IssuedKey)
           /\ InFlight' > InFlight => InFlight' = InFlight + 1
           /\ (outcome'.trending \in {"failed", "ok"} /\ outcome.trending = "started") =>
                 trendingCalls' = trendingCalls - 1 /\ InFlight' = InFlight - 1
           /\ (outcome'.scrape \in {"failed", "ok"} /\ outcome.scrape = "started") =>
                 Len(scrapeCalls') = Len(scrapeCalls) - 1 /\ InFlight' = InFlight - 1
           /\ (summarizeCalls' # summarizeCalls /\ ~Issuing) =>
                 Settling /\ InFlight' = InFlight - 1 ]_vars

\* C27 witness: the /trending call of the mount, a /scrape call and a
\* /summarize call have failed and no call is in flight
C27_Witness_FailuresNotRetried ==
    /\ InFlight = 0
    /\ outcome.trending = "failed" /\ trendingArticles = <<>>
    /\ outcome.scrape = "failed" /\ error = ScrapeFailedMessage
    /\ \E key \in DOMAIN summaries : HoldsError(summaries, key)

\* C28: while loading is true the scraped collection is empty, stats is null
\* and error is empty; the step that issues a /scrape call sets loading and
\* leaves this blank slate, whatever articles, stats and error were
C28_BlankSlateWhileLoading ==
    /\ [](loading => articles = <<>> /\ stats = Null /\ error = "")
    /\ [](loading <=> scrapeCalls # <<>>)
    /\ [][ ScrapeStarting =>
             loading' /\ articles' = <<>> /\ stats' = Null /\ error' = "" ]_vars

\* C28 witness: a scrape is in flight together with a /summarize call for a
\* grid card, so articles were on screen when the scrape button was pressed
C28_Witness_ScrapeOverResults ==
    /\ loading
    /\ articles = <<>> /\ stats = Null /\ error = ""
    /\ \E j \in 1..Len(summarizeCalls) : summarizeCalls[j].key[1] = "A"

C29_PendingUntilFirstSettles ==
    [][ /\ Issuing => Get(summarizing', IssuedKey)
        /\ Settling => \A key \in SettledKeys : Holds(summarizing', key, FALSE)
        /\ \A key \in HandlerKeys :
              (~Get(summarizing', key) /\ Get(summarizing, key)) =>
                 Settling /\ key \in SettledKeys ]_vars

GridResultsMatch ==
    \A card \in Cards :
       (card.key[1] = "A" /\ renderSummarySection(card.key) # <<>>) =>
          Holds(resolved, card.key, [url |-> card.article.url,
                                     after |-> resolved[card.key].after])

\* C30: a change of the filter selection never puts a stored result on a
\* grid card of another article: if every result on the grid was made for
\* its card's article before the change, so it is after it
C30_SelectionKeepsResultOnArticle ==
    [][ (selectionVars' # selectionVars /\ GridResultsMatch) => GridResultsMatch' ]_vars

\* C30 (what the code does): a change of the selection leaves the stored
\* results under their keys, and the grid card that takes the position
\* A-index shows the result stored under that key
C30_ResultStaysAtPosition ==
    [][ selectionVars' # selectionVars =>
          /\ summaries' = summaries
          /\ \A card \in Cards' :
                card.key \in DOMAIN summaries =>
                   renderSummarySection(card.key)' =
                      << [result |-> summaries[card.key],
                          expanded |-> Get(expandedSummaries, card.key)] >> ]_vars

\* C30 witness: the source filter puts the second scraped article at the
\* first position of the grid, where it shows, expanded, the result made for
\* the first one
C30_Witness_ResultOnOtherArticle ==
    /\ articles = << ScrapedA1, ScrapedA2 >>
    /\ selectedSource = ScrapedA2.source
    /\ \E card \in Cards :
          /\ card.key = StateKey("A", 0)
          /\ card.article = ScrapedA2
          /\ Holds(resolved, card.key, [url |-> ScrapedA1.url, after |-> <<>>])
          /\ renderSummarySection(card.key) # <<>>
          /\ renderSummarySection(card.key)[1].expanded

\* the /summarize call for the grid key that settles in this step was issued
\* before the scrape whose call is in flight or whose articles are on screen:
\* no grid card has the key with the URL the call was made for
SettlingOutdated(key) ==
    /\ Settling
    /\ key \in SettledKeys
    /\ key[1] = "A"
    /\ key \in DOMAIN resolved'
    /\ ~\E card \in Cards : card.key = key /\ card.article.url = resolved'[key].url

\* C31 (as stated): a /summarize call issued before a scrape stores no
\* result and expands no panel when it settles after the scrape has started
C31_OutdatedResponseDropped ==
    [][ \A key \in DOMAIN summarizing :
           SettlingOutdated(key) =>
              summaries' = summaries /\ expandedSummaries' = expandedSummaries ]_vars

\* C31 (amended): a /summarize call issued before a scrape, when it settles
\* after the scrape has started, stores its result under its old key, expands
\* the panel of the key and clears its pending flag, like any other call
C31_OutdatedResponseStored ==
    [][ \A key \in DOMAIN summarizing :
           SettlingOutdated(key) =>
              /\ key \in DOMAIN summaries' /\ summaries'[key] \in SummaryPayloads
              /\ Holds(expandedSummaries', key, TRUE)
              /\ Holds(summarizing', key, FALSE) ]_vars

\* C31 witness: the articles of the second scrape are on screen, no call is
\* in flight, and the first grid card shows the result of a call made for the
\* first article of the scrape before
C31_Witness_OutdatedResultOnScreen ==
    /\ outcome.scrape = "ok" /\ articles = << ScrapedA2 >>
    /\ scrapeCalls = <<>> /\ summarizeCalls = <<>>
    /\ Holds(resolved, StateKey("A", 0), [url |-> ScrapedA1.url, after |-> <<>>])
    /\ renderSummarySection(StateKey("A", 0)) # <<>>

\* C32: the step that issues a /scrape call leaves no stored result and no
\* expanded flag, under the keys of the trending cards either, and leaves
\* the pending flags and the trending collection as they were; a step of
\* fetchTrendingNews leaves every stored result, flag and panel as it was
C32_ScrapeClearsEveryResult ==
    [][ /\ ScrapeStarting =>
              /\ DOMAIN summaries' = {} /\ DOMAIN expandedSummaries' = {}
              /\ summarizing' = summarizing
              /\ trendingArticles' = trendingArticles
        /\ (trendingCalls' # trendingCalls \/ trendingArticles' # trendingArticles) =>
              UNCHANGED << summaries, expandedSummaries, summarizing >> ]_vars

\* C32 witness: a scrape is in flight and nothing is stored, while the
\* trending cards are on screen, a /summarize call for one of them has
\* settled before and another call is still pending
C32_Witness_TrendingResultCleared ==
    /\ loading
    /\ summaries = EmptyObject /\ expandedSummaries = EmptyObject
    /\ Len(trendingArticles) = 2
    /\ Holds(summarizing, StateKey("T", 0), FALSE)
    /\ \E key \in DOMAIN summarizing : summarizing[key]

\* C33: a key whose expanded flag is true has a stored result
C33_ExpandedHasResult ==
    \A key \in DOMAIN expandedSummaries :
       expandedSummaries[key] => key \in DOMAIN summaries

\* C33 witness: after a scrape that cleared the results, one key is expanded
\* with its result, another has been collapsed by a toggle, and a third call
\* is in flight
C33_Witness_ExpandedAndCollapsed ==
    /\ outcome.scrape = "ok"
    /\ \E key \in DOMAIN expandedSummaries :
          expandedSummaries[key] /\ key \in DOMAIN summaries
    /\ \E key \in DOMAIN expandedSummaries :
          ~expandedSummaries[key] /\ key \in DOMAIN summaries
    /\ trendingCalls > 0

\* C34: at most one /scrape call is in flight, loading is true exactly while
\* one is, and the scrape button takes no press meanwhile; the scraped
\* collection and the stats are empty and null, or the articles of the
\* response that settled last together with the stats of that response
C34_OneScrapeAtATime ==
    /\ Len(scrapeCalls) <= 1
    /\ loading <=> Len(scrapeCalls) = 1
    /\ loading =>
          \A form \in FormInputs : ~ENABLED ClickScrape(form.urls, form.filters, form.categories)
    /\ stats = Null => articles = <<>>
    /\ stats # Null =>
          /\ articles = outcome.scraped
          /\ stats = [total |-> ScrapeData(articles).total,
                      time |-> ScrapeData(articles).processing_time,
                      sources |-> ScrapeData(articles).sources_scraped,
                      errors |-> <<>>]

\* C34 witness: the one-article response of the scrape issued last is on
\* screen with its stats, and the button is enabled again
C34_Witness_LastScrapeOnScreen ==
    /\ ~loading /\ scrapeCalls = <<>>
    /\ outcome.scrape = "ok"
    /\ articles = << ScrapedA2 >>
    /\ stats # Null /\ stats.total = 1
    /\ \E form \in FormInputs : ENABLED ClickScrape(form.urls, form.filters, form.categories)

\* C35 (as stated): when error is not empty, stats is null
C35_ErrorExcludesStats ==
    error # "" => stats = Null

\* C35 (amended): the scrape-failure message is never shown with stats; when
\* error is not empty and stats is not null, error is the validation message
\* of a form that was rejected after the scrape that brought the stats, and
\* no call is in flight
C35_OnlyValidationMessageWithStats ==
    /\ error = ScrapeFailedMessage => stats = Null /\ articles = <<>>
    /\ (error # "" /\ stats # Null) =>
          /\ error = ValidationMessage
          /\ outcome.scrape = "invalid"
          /\ scrapeCalls = <<>> /\ ~loading
          /\ articles = outcome.scraped

\* C35 witness: a form without a URL was rejected after a scrape that
\* succeeded: the validation message stands next to the stats of two articles
C35_Witness_MessageNextToStats ==
    /\ error = ValidationMessage
    /\ AllBlank(outcome.asked[1].urls)
    /\ stats # Null /\ stats.total = 2
    /\ Len(articles) = 2

\* the source button i alone is selected; the category button i alone
OnlySource(i) ==
    selectedSource = uniqueSources[i] /\ selectedSentiment = "all" /\ selectedCategory = "all"
OnlyCategory(i) ==
    selectedCategory = uniqueCategories[i] /\ selectedSource = "all" /\ selectedSentiment = "all"

\* C36: when the value of a source button or of a category button is
\* selected alone, the grid shows as many articles as the count on the button
C36_GridMatchesButtonCount ==
    /\ \A i \in 1..Len(uniqueSources) :
          OnlySource(i) => Len(filteredArticles) = sourceCounts[i]
    /\ \A i \in 1..Len(uniqueCategories) :
          OnlyCategory(i) => Len(filteredArticles) = categoryCounts[i]

\* C36 (what the code does): the grid shows the scraped articles with the
\* value, the count on the button adds the trending articles with the value
C36_ButtonCountAddsTrending ==
    /\ \A i \in 1..Len(uniqueSources) :
          OnlySource(i) =>
             sourceCounts[i] = Len(filteredArticles)
                                 + CountWhere(trendingArticles, "source", uniqueSources[i])
    /\ \A i \in 1..Len(uniqueCategories) :
          OnlyCategory(i) =>
             categoryCounts[i] = Len(filteredArticles)
                                   + CountWhere(trendingArticles, "category", uniqueCategories[i])

\* C36 witness: the source of a trending article, which no scraped article
\* has, is selected alone: its button shows the count 1 over an empty grid,
\* while the scraped collection holds two articles
C36_Witness_EmptyGridForCountedValue ==
    /\ Len(articles) = 2
    /\ \E i \in 1..Len(uniqueSources) :
          /\ OnlySource(i)
          /\ uniqueSources[i] = TrendingT1.source
          /\ sourceCounts[i] = 1
    /\ filteredArticles = <<>>

====
